---- MODULE Spec2Model ----
(***************************************************************************)
(* Model of bigip_device_license.py: one invocation of ModuleManager       *)
(* (exec_module) against a BIG-IP appliance and the F5 activation server.  *)
(* The appliance and the activation server are the environment: every     *)
(* call to them is one action whose answer is drawn from a small set.     *)
(***************************************************************************)
EXTENDS Naturals, Sequences, FiniteSets

(***************************************************************************)
(* Values                                                                  *)
(***************************************************************************)

\* Python's None
None == "None"

\* registration keys an appliance can carry
Keys == {"K1", "K2"}

\* license_key of the request: not given, or a key (the keys are alike, so
\* one of them stands for a requested key)
WantKeys == {None, "K1"}

\* resource.registrationKey: a key, None, or no such attribute at all
NoAttr == "NoAttr"
RegKeys == Keys \cup {None, NoAttr}

\* a file that is not on the appliance
NoFile == "NoFile"

\* the loop bound off by one: range(0, 11)
MaxAttempts_off_by_one == 10 + 1

\* for x in range(0, 10)
MaxAttempts == 10

\* the loop left after three positive results
Threshold_three == 4 - 1

\* while nops < 4
Threshold == 4

\* bound of the model on the number of readiness checks of one polling loop
MaxPolls == 8

\* an XML node that is not in the document
NoNode == "NoNode"

\* text of the multiRef element typed TransactionState
StateTexts == {NoNode, "", "EULA_REQUIRED", "LICENSE_RETURNED",
               "EMAIL_REQUIRED", "CONTACT_INFO_REQUIRED", "OTHER"}
EulaTexts == {NoNode, "", "E1", "E2"}
LicenseTexts == {NoNode, "", "L1"}
\* the multiRef element typed LicensingFault: not there; a faultNumber and a
\* faultText; a faultNumber and a faultText marked xsi:nil; a faultNumber
\* that is no integer
FaultForms == {NoNode, "text", "nil", "badnum"}

\* what mgmt.post hands back: a body that is no XML, or an XML document
Responses ==
    {[wf |-> FALSE, state |-> NoNode, eula |-> NoNode, license |-> NoNode,
      fault |-> NoNode]}
    \cup [wf : {TRUE}, state : StateTexts, eula : EulaTexts,
          license : LicenseTexts, fault : FaultForms]

(***************************************************************************)
(* LicenseXmlParser                                                        *)
(***************************************************************************)

\* root[0].text of a found node; None when the node is missing (IndexError)
\* or empty (ElementTree gives None for an element without text)
node_text(n) == IF n = NoNode \/ n = "" THEN None ELSE n

\* x or None
or_none(x) == IF x = "" \/ x = None THEN None ELSE x

\* LicenseXmlParser.state
parser_state(r) == IF r.state = NoNode \/ r.state = "" THEN None ELSE r.state

\* LicenseXmlParser.get_fault -> fault_number
fault_number(r) == IF r.fault = NoNode THEN None ELSE 1

\* LicenseXmlParser.get_fault -> fault_text
fault_text(r) == IF r.fault = "text" THEN "F1" ELSE None

\* the exception LicenseXmlParser(content).json() ends in, or "ok"
parse_exception(r) ==
    IF ~r.wf THEN "F5ModuleError"
    ELSE IF r.fault = "badnum" THEN "ValueError"
    ELSE "ok"

\* LicenseXmlParser.json
json(r) ==
    [eula |-> or_none(node_text(r.eula)),
     license |-> or_none(node_text(r.license)),
     state |-> or_none(parser_state(r)),
     fault_number |-> fault_number(r),
     fault_text |-> or_none(fault_text(r))]

(***************************************************************************)
(* ModuleParameters                                                        *)
(***************************************************************************)

\* license_options: eula=self.eula or ''
license_options_eula(eula) == IF eula = None THEN "" ELSE eula


\* the returned EULA is not kept for the next request
update_eula_dropped(old, new) == old

\* self.want.update({'eula': result['eula']})
update_eula(old, new) == new

(***************************************************************************)
(* ModuleManager: decisions                                                *)
(***************************************************************************)

\* the comparison of exists() inverted
exists_inverted(reg, key) == reg # NoAttr /\ reg # key

\* exists(): resource.registrationKey == self.want.license_key; a resource
\* without the attribute raises inside the try and gives False
exists(reg, key) == reg # NoAttr /\ reg = key

\* any_license_exists() as a test that the attribute is there
any_license_exists_hasattr(reg) == reg # NoAttr

\* any_license_exists(): resource.registrationKey is not None
any_license_exists(reg) == reg # NoAttr /\ reg # None

\* create() testing check mode before accept_eula
create_guard_check_first(accept, check) ==
    IF check THEN "return"
    ELSE IF ~accept THEN "raise"
    ELSE "go"

\* create() without its test of check mode
create_guard_no_check_mode(accept, check) ==
    IF ~accept THEN "raise" ELSE "go"

\* create(), before the first call to the appliance
create_guard(accept, check) ==
    IF ~accept THEN "raise"
    ELSE IF check THEN "return"
    ELSE "go"

\* create() without its last test
create_verified_always(reg, key) == TRUE

\* create(): if not self.exists(): raise
create_verified(reg, key) == exists(reg, key)

\* absent(): if self.exists(): raise
absent_still_there(reg, key) == exists(reg, key)

\* remove(): if self.exists(): raise
remove_still_there(reg, key) == exists(reg, key)

\* every exception of the parser taken as transient
on_parse_exception_continue(exc) == "continue"

\* generate_license_from_remote: the two except clauses around the parser
on_parse_exception(exc) ==
    IF exc = "F5ModuleError" THEN "raise" ELSE "continue"

\* the chain without the continue of its first branch: an EULA_REQUIRED
\* result is returned
dispatch_eula_returned(state) ==
    IF state = "EULA_REQUIRED" \/ state = "LICENSE_RETURNED" THEN "return"
    ELSE IF state = "EMAIL_REQUIRED" THEN "email"
    ELSE IF state = "CONTACT_INFO_REQUIRED" THEN "contact"
    ELSE "fault"

\* the chain returning the result of a fault
dispatch_fault_returned(state) ==
    IF state = "EULA_REQUIRED" THEN "continue"
    ELSE IF state = "EMAIL_REQUIRED" THEN "email"
    ELSE IF state = "CONTACT_INFO_REQUIRED" THEN "contact"
    ELSE "return"

\* the chain retrying where it should raise
dispatch_retry_all(state) ==
    IF state = "LICENSE_RETURNED" THEN "return" ELSE "continue"

\* generate_license_from_remote: the if/elif chain on result['state']
dispatch(state) ==
    IF state = "EULA_REQUIRED" THEN "continue"
    ELSE IF state = "LICENSE_RETURNED" THEN "return"
    ELSE IF state = "EMAIL_REQUIRED" THEN "email"
    ELSE IF state = "CONTACT_INFO_REQUIRED" THEN "contact"
    ELSE "fault"

\* _is_mcpd_ready_on_device: True only for an output that has a commandResult
Signals == {"running", "no_result", "error"}
is_mcpd_ready(sig) == sig = "running"

\* wait_for_mcpd: a check that is not positive leaves the counter as it is
next_nops_kept(n, ready) == IF ready THEN n + 1 ELSE n

\* wait_for_mcpd: nops += 1 on a positive check, nops = 0 otherwise
next_nops(n, ready) == IF ready THEN n + 1 ELSE 0

\* the messages of the F5ModuleErrors the module raises
MsgEula == "You must read and accept the product EULA to license the box."
MsgDossier == "Dossier not generated."
MsgInvalidXml == "Provided XML payload is invalid."
MsgEmail == "Email must be provided"
MsgContact == "Contact info must be provided"
MsgExhausted == "Failed to generate license from F5 activation servers."
MsgNotLicensed == "Failed to license the device."
MsgNotDeleted == "Failed to delete the resource."
MsgNotRemoved == "Failed to remove the license from the device."
\* an exception of the transport under exec_cmd, and of re.sub on None
MsgGateway == "gateway error"
MsgTypeError == "TypeError"

(***************************************************************************)
(* State                                                                   *)
(***************************************************************************)

VARIABLES
    want_state,     \* module input: "present" or "absent"
    license_key,    \* module input
    accept_eula,    \* module input
    check_mode,     \* self.module.check_mode
    want_eula,      \* self.want.eula
    want_dossier,   \* self.want.dossier
    x,              \* loop variable of generate_license_from_remote
    license,        \* the result generate_license_from_remote returned
    nops,           \* counter of wait_for_mcpd
    caller,         \* the method wait_for_mcpd returns to
    pc,             \* position of the invocation
    changed,        \* the result of present() or absent()
    error,          \* the message of the error the invocation ended in
    regKey,         \* appliance: the registration key
    licFile,        \* appliance: /config/bigip.license, by the key it licenses
    eulaFile,       \* appliance: /LICENSE.F5 is there
    dev0,           \* the appliance as it was when the invocation began
    calls,          \* number of calls made, by kind
    obs,            \* observations of the negotiation's requests and responses
    watch,          \* observations of the readiness checks and the removals
    text,           \* a text handed to an upload
    command,        \* the utilCmdArgs an upload hands to exec_cmd
    earlier         \* how the earlier run of the same operation ended

request == <<want_state, license_key, accept_eula, check_mode>>
device == <<regKey, licFile, eulaFile>>
vars == <<want_state, license_key, accept_eula, check_mode, want_eula,
          want_dossier, x, license, nops, caller, pc, changed, error,
          regKey, licFile, eulaFile, dev0, calls, obs, watch, text, command,
          earlier>>
escaping == <<text, command>>

\* license before generate_license_from_remote has returned a result
NoResult == [license |-> "-", eula |-> "-"]

NoCalls == [load |-> 0, dossier |-> 0, post |-> 0, write_license |-> 0,
            write_eula |-> 0, rm |-> 0, reload |-> 0, poll |-> 0]

\* obs.kind: how the latest request ended; obs.all_transport: every request so
\* far ended in a transport error; obs.pattern: the responses so far are
\* none ("-"), EULA_REQUIRED ("E"), EULA_REQUIRED then LICENSE_RETURNED
\* ("EL"), or anything else ("other"); obs.first_eula: the EULA field of the
\* first request; obs.sent_eula: the EULA field of the latest request;
\* obs.prev_eula: the EULA of the latest EULA_REQUIRED response received
\* before the latest request was sent; obs.last_eula: the same, including
\* the latest response; obs.fault_text: the fault text of the latest parsed
\* response
NoObs == [kind |-> "-", all_transport |-> TRUE, pattern |-> "-",
          first_eula |-> "-", sent_eula |-> "-", prev_eula |-> "-",
          last_eula |-> "-", fault_text |-> "-"]

\* watch.run: the number of positive results in a row that end the readiness
\* checks made so far; watch.sig: the latest result; watch.on_seq: the
\* results so far are the first ones of PollSequence; watch.rm: how the
\* latest removal ended
NoWatch == [run |-> 0, sig |-> "-", on_seq |-> TRUE, rm |-> "-",
            dossier |-> "-", cmd_failed |-> FALSE]

\* no earlier run
NoRun == [pc |-> "-", changed |-> FALSE]

Init ==
    /\ want_state \in {"present", "absent"}
    /\ license_key \in WantKeys
    /\ accept_eula \in BOOLEAN
    /\ check_mode \in BOOLEAN
    /\ want_eula = None
    /\ want_dossier = None
    /\ x = 0
    /\ license = NoResult
    /\ nops = 0
    /\ caller = "-"
    /\ pc = "start"
    /\ changed = FALSE
    /\ error = "-"
    /\ regKey \in RegKeys
    /\ licFile \in {NoFile} \cup ({regKey} \cap Keys)
    /\ eulaFile \in BOOLEAN
    /\ dev0 = [regKey |-> regKey, licFile |-> licFile, eulaFile |-> eulaFile]
    /\ calls = NoCalls
    /\ obs = NoObs
    /\ watch = NoWatch
    /\ text = <<>>
    /\ command = <<>>
    /\ earlier = NoRun

\* the invocation ends: exec_module returns changed, or an error reaches main
Return(c) == pc' = "done" /\ changed' = c /\ error' = "-"
Raise(msg) == pc' = "failed" /\ changed' = FALSE /\ error' = msg
Goto(p) == pc' = p /\ UNCHANGED <<changed, error>>


(***************************************************************************)
(* present(), create() up to the first command                             *)
(***************************************************************************)

present ==
    /\ pc = "start"
    /\ want_state = "present"
    /\ calls' = [calls EXCEPT !.load = @ + 1]
    /\ caller' = "create"
    /\ IF exists(regKey, license_key)
       THEN Return(FALSE)
       ELSE CASE create_guard(accept_eula, check_mode) = "raise" ->
                    Raise(MsgEula)
              [] create_guard(accept_eula, check_mode) = "return" ->
                    Return(TRUE)
              [] OTHER -> Goto("read_dossier")
    /\ UNCHANGED <<escaping, earlier, watch>>
    /\ UNCHANGED <<request, device, dev0, want_eula, want_dossier, x, license,
                   nops, obs>>

\* read_dossier_from_device and the test of its result in create()
DossierResults == {"raises", "no_result", "empty", "dossier"}

\* result.commandResult, None when the answer has no such attribute
commandResult(out) ==
    CASE out = "no_result" -> None
      [] out = "empty" -> ""
      [] OTHER -> "D"

dossier_ok_not_none(d) == d # None

\* create: if dossier
dossier_ok(d) == d \notin {None, ""}

read_dossier_from_device ==
    /\ pc = "read_dossier"
    /\ calls' = [calls EXCEPT !.dossier = @ + 1]
    /\ \E out \in DossierResults :
          /\ watch' = [watch EXCEPT !.dossier = out]
          /\ IF out = "raises"
             THEN Raise(MsgGateway) /\ UNCHANGED want_dossier
             ELSE IF dossier_ok(commandResult(out))
                  THEN /\ Goto("generate_license")
                       /\ want_dossier' = commandResult(out)
                  ELSE Raise(MsgDossier) /\ UNCHANGED want_dossier
    /\ UNCHANGED <<escaping, earlier>>
    /\ UNCHANGED <<request, device, dev0, want_eula, x, license, nops, caller,
                   obs>>

(***************************************************************************)
(* generate_license_from_remote: one pass of the loop per step, and        *)
(* create_on_device's test of what it returned                             *)
(***************************************************************************)

\* what the activation server sent, as an observer sees it
response_kind(r) ==
    IF ~r.wf THEN "malformed"
    ELSE IF r.fault = "badnum" THEN "parse_error"
    ELSE parser_state(r)

next_pattern(p, k) ==
    IF p = "-" /\ k = "EULA_REQUIRED" THEN "E"
    ELSE IF p = "E" /\ k = "LICENSE_RETURNED" THEN "EL"
    ELSE "other"

\* the request is sent with the EULA field license_options gives
Observe(k, eula, ftext) ==
    LET sent == license_options_eula(want_eula) IN
    obs' = [kind |-> k,
            all_transport |-> obs.all_transport /\ k = "transport_error",
            pattern |-> next_pattern(obs.pattern, k),
            first_eula |-> IF calls.post = 0 THEN sent ELSE obs.first_eula,
            sent_eula |-> sent,
            prev_eula |-> obs.last_eula,
            last_eula |-> IF k = "EULA_REQUIRED" THEN eula ELSE obs.last_eula,
            fault_text |-> ftext]

\* continue: the next pass, or the end of the loop, where the function
\* returns None and create_on_device raises
Continue ==
    /\ x' = x + 1
    /\ UNCHANGED license
    /\ IF x + 1 >= MaxAttempts THEN Raise(MsgExhausted)
       ELSE Goto("generate_license")

PostRaises ==
    /\ Observe("transport_error", None, "-")
    /\ Continue
    /\ UNCHANGED want_eula

PostAnswers(r) ==
    LET exc == parse_exception(r)
        result == json(r)
        d == dispatch(result.state)
    IN
    /\ Observe(response_kind(r), result.eula,
               IF exc = "ok" THEN result.fault_text ELSE "-")
    /\ IF exc # "ok"
       THEN IF on_parse_exception(exc) = "raise"
            THEN Raise(MsgInvalidXml) /\ UNCHANGED <<want_eula, x, license>>
            ELSE Continue /\ UNCHANGED want_eula
       ELSE CASE d = "continue" ->
                    Continue /\ want_eula' = update_eula(want_eula, result.eula)
              [] d = "return" ->
                    /\ license' = [license |-> result.license,
                                   eula |-> result.eula]
                    /\ Goto("upload_license")
                    /\ UNCHANGED <<want_eula, x>>
              [] d = "email" ->
                    Raise(MsgEmail) /\ UNCHANGED <<want_eula, x, license>>
              [] d = "contact" ->
                    Raise(MsgContact) /\ UNCHANGED <<want_eula, x, license>>
              [] OTHER ->
                    Raise(result.fault_text)
                    /\ UNCHANGED <<want_eula, x, license>>

generate_license_from_remote ==
    /\ pc = "generate_license"
    /\ x < MaxAttempts
    /\ calls' = [calls EXCEPT !.post = @ + 1]
    /\ \/ PostRaises
       \/ \E r \in Responses : PostAnswers(r)
    /\ UNCHANGED <<escaping, earlier, watch>>
    /\ UNCHANGED <<request, device, dev0, want_dossier, nops, caller>>


(***************************************************************************)
(* create_on_device: the install                                           *)
(***************************************************************************)

\* exec_cmd of a bash command returns after the command has run, returns
\* with the command's error as its output (the command changed nothing), or
\* raises
CmdResults == {"ok", "util_error", "raises"}

\* re.sub(self.escape_patterns, ..., license['license']) raises TypeError on
\* None, before any command is sent
upload_license_to_device ==
    /\ pc = "upload_license"
    /\ IF license.license = None
       THEN Raise(MsgTypeError) /\ UNCHANGED <<licFile, calls, watch>>
       ELSE /\ calls' = [calls EXCEPT !.write_license = @ + 1]
            /\ \E out \in CmdResults :
                  /\ watch' = [watch EXCEPT !.cmd_failed = @ \/ out # "ok"]
                  /\ licFile' = IF out = "ok" THEN license_key ELSE licFile
                  /\ IF out = "raises" THEN Raise(MsgGateway)
                     ELSE Goto("upload_eula")
    /\ UNCHANGED <<escaping, earlier>>
    /\ UNCHANGED <<request, regKey, eulaFile, dev0, want_eula, want_dossier,
                   x, license, nops, caller, obs>>

upload_eula_to_device ==
    /\ pc = "upload_eula"
    /\ IF license.eula = None
       THEN Raise(MsgTypeError) /\ UNCHANGED <<eulaFile, calls, watch>>
       ELSE /\ calls' = [calls EXCEPT !.write_eula = @ + 1]
            /\ \E out \in CmdResults :
                  /\ watch' = [watch EXCEPT !.cmd_failed = @ \/ out # "ok"]
                  /\ eulaFile' = IF out = "ok" THEN TRUE ELSE eulaFile
                  /\ IF out = "raises" THEN Raise(MsgGateway)
                     ELSE Goto("reload_license")
    /\ UNCHANGED <<escaping, earlier>>
    /\ UNCHANGED <<request, regKey, licFile, dev0, want_eula, want_dossier,
                   x, license, nops, caller, obs>>

\* the registration /usr/bin/reloadlic gives the appliance when it takes the
\* license file as it is
reloaded(file) == IF file = NoFile THEN NoAttr ELSE file

\* reload_license, called by create_on_device and by remove_from_device; the
\* appliance takes the files as they are, or keeps its registration. After
\* it create() starts wait_for_mcpd and remove() asks exists()
reload_license ==
    /\ pc = "reload_license"
    /\ calls' = [calls EXCEPT !.reload = @ + 1]
    /\ \E out \in CmdResults :
          /\ watch' = [watch EXCEPT !.cmd_failed = @ \/ out # "ok"]
          /\ regKey' \in IF out = "ok" THEN {regKey, reloaded(licFile)}
                         ELSE {regKey}
          /\ IF out = "raises" THEN Raise(MsgGateway) /\ UNCHANGED nops
             ELSE /\ nops' = 0
                  /\ Goto(IF caller = "create" THEN "wait_for_mcpd"
                          ELSE "remove_exists")
    /\ UNCHANGED <<escaping, earlier>>
    /\ UNCHANGED <<request, licFile, eulaFile, dev0, want_eula, want_dossier,
                   x, license, caller, obs>>

(***************************************************************************)
(* wait_for_mcpd: one pass of the loop per step                            *)
(***************************************************************************)

\* the readiness results of the example: fail, ok, ok, fail, ok, ok, ok, ok
PollSequence == <<"fail", "ok", "ok", "fail", "ok", "ok", "ok", "ok">>

\* the i-th result continues PollSequence
on_sequence(on, i, sig) ==
    /\ on
    /\ i <= Len(PollSequence)
    /\ PollSequence[i] = (IF sig = "running" THEN "ok" ELSE "fail")

\* the loop has no bound of its own; the checks are counted up to MaxPolls
wait_for_mcpd ==
    /\ pc = "wait_for_mcpd"
    /\ nops < Threshold
    /\ calls' = [calls EXCEPT !.poll = IF @ < MaxPolls THEN @ + 1 ELSE @]
    /\ \E sig \in Signals :
          LET n == next_nops(nops, is_mcpd_ready(sig)) IN
          /\ nops' = n
          /\ watch' = [watch EXCEPT
                         !.run = IF sig = "running" THEN @ + 1 ELSE 0,
                         !.sig = sig,
                         !.on_seq = on_sequence(@, calls.poll + 1, sig)]
          /\ IF n < Threshold THEN Goto("wait_for_mcpd")
             ELSE Goto(IF caller = "create" THEN "create_exists"
                       ELSE "absent_exists")
    /\ UNCHANGED <<escaping, earlier, request, device, dev0, want_eula,
                   want_dossier, x, license, caller, obs>>

\* create(): if not self.exists(): raise; return True
create_exists ==
    /\ pc = "create_exists"
    /\ calls' = [calls EXCEPT !.load = @ + 1]
    /\ IF create_verified(regKey, license_key) THEN Return(TRUE)
       ELSE Raise(MsgNotLicensed)
    /\ UNCHANGED <<escaping, earlier, watch>>
    /\ UNCHANGED <<request, device, dev0, want_eula, want_dossier, x, license,
                   nops, caller, obs>>

(***************************************************************************)
(* absent(), remove(), remove_from_device                                  *)
(***************************************************************************)

\* absent() up to the first command: any_license_exists(), then remove(),
\* which returns True at once in check mode, and then wait_for_mcpd
absent ==
    /\ pc = "start"
    /\ want_state = "absent"
    /\ calls' = [calls EXCEPT !.load = @ + 1]
    /\ caller' = "absent"
    /\ IF any_license_exists(regKey)
       THEN IF check_mode THEN Goto("wait_for_mcpd")
            ELSE Goto("remove_license")
       ELSE Return(FALSE)
    /\ UNCHANGED <<escaping, earlier, watch>>
    /\ UNCHANGED <<request, device, dev0, want_eula, want_dossier, x, license,
                   nops, obs>>

\* unix_rm: it removes the file ("removed"), or raises UtilError 'No such
\* file or directory' when the file is not there ("no_such_file"), or raises
\* another UtilError ("util_error"), or the transport raises ("raises")
RmResults == {"removed", "no_such_file", "util_error", "raises"}
MsgUtilError == "UtilError"

\* the answers unix_rm can give for a file that is there, or is not
rm_answers(there) ==
    {IF there THEN "removed" ELSE "no_such_file", "util_error", "raises"}

\* every UtilError of the removal raised again
rm_handled_strict(out) ==
    IF out = "removed" THEN "True"
    ELSE IF out = "no_such_file" \/ out = "util_error" THEN "F5ModuleError"
    ELSE "exception"

\* remove_license_from_device, remove_eula_from_device: the try around
\* unix_rm
rm_handled(out) ==
    IF out = "removed" \/ out = "no_such_file" THEN "True"
    ELSE IF out = "util_error" THEN "F5ModuleError"
    ELSE "exception"

remove_license_from_device ==
    /\ pc = "remove_license"
    /\ calls' = [calls EXCEPT !.rm = @ + 1]
    /\ \E out \in rm_answers(licFile # NoFile) :
          /\ watch' = [watch EXCEPT !.rm = out]
          /\ licFile' = IF out = "removed" THEN NoFile ELSE licFile
          /\ CASE rm_handled(out) = "True" -> Goto("remove_eula")
               [] rm_handled(out) = "F5ModuleError" -> Raise(MsgUtilError)
               [] OTHER -> Raise(MsgGateway)
    /\ UNCHANGED <<escaping, earlier>>
    /\ UNCHANGED <<request, regKey, eulaFile, dev0, want_eula, want_dossier,
                   x, license, nops, caller, obs>>

remove_eula_from_device ==
    /\ pc = "remove_eula"
    /\ calls' = [calls EXCEPT !.rm = @ + 1]
    /\ \E out \in rm_answers(eulaFile) :
          /\ watch' = [watch EXCEPT !.rm = out]
          /\ eulaFile' = IF out = "removed" THEN FALSE ELSE eulaFile
          /\ CASE rm_handled(out) = "True" -> Goto("reload_license")
               [] rm_handled(out) = "F5ModuleError" -> Raise(MsgUtilError)
               [] OTHER -> Raise(MsgGateway)
    /\ UNCHANGED <<escaping, earlier>>
    /\ UNCHANGED <<request, regKey, licFile, dev0, want_eula, want_dossier,
                   x, license, nops, caller, obs>>

\* remove(): if self.exists(): raise; return True, and absent() goes on to
\* wait_for_mcpd
remove_exists ==
    /\ pc = "remove_exists"
    /\ calls' = [calls EXCEPT !.load = @ + 1]
    /\ IF remove_still_there(regKey, license_key) THEN Raise(MsgNotDeleted)
       ELSE Goto("wait_for_mcpd")
    /\ UNCHANGED <<escaping, earlier, watch>>
    /\ UNCHANGED <<request, device, dev0, want_eula, want_dossier, x, license,
                   nops, caller, obs>>

\* absent(): if self.exists(): raise; return True
absent_exists ==
    /\ pc = "absent_exists"
    /\ calls' = [calls EXCEPT !.load = @ + 1]
    /\ IF absent_still_there(regKey, license_key) THEN Raise(MsgNotRemoved)
       ELSE Return(TRUE)
    /\ UNCHANGED <<escaping, earlier, watch>>
    /\ UNCHANGED <<request, device, dev0, want_eula, want_dossier, x, license,
                   nops, caller, obs>>

(***************************************************************************)
(* The invocation                                                          *)
(***************************************************************************)

Next ==
    \/ present
    \/ read_dossier_from_device
    \/ generate_license_from_remote
    \/ upload_license_to_device
    \/ upload_eula_to_device
    \/ reload_license
    \/ wait_for_mcpd
    \/ create_exists
    \/ absent
    \/ remove_license_from_device
    \/ remove_eula_from_device
    \/ remove_exists
    \/ absent_exists

Spec == Init /\ [][Next]_vars

(***************************************************************************)
(* The commands of the uploads, for every text                             *)
(***************************************************************************)

\* bound of the model on the length of a text
MaxText == 3

\* a text is a sequence of characters; the characters told apart are the
\* ones escape_patterns names, the backslash, the newline, the letters of
\* the heredoc terminator and one other character
Chars == {"$", "\"", "'", "\\", "\n", "E", "O", "F", "a"}

RECURSIVE TextsOfLength(_)
TextsOfLength(n) ==
    IF n = 0 THEN {<<>>}
    ELSE {Append(t, c) : t \in TextsOfLength(n - 1), c \in Chars}

Texts == UNION {TextsOfLength(n) : n \in 0..MaxText}

\* self.escape_patterns = r'([$"' + "'])"
escape_patterns == {"$", "\"", "'"}

\* re.sub(self.escape_patterns, r'\\\1', text): a backslash before every
\* character of escape_patterns
RECURSIVE escape(_)
escape(t) ==
    IF t = <<>> THEN <<>>
    ELSE (IF Head(t) \in escape_patterns THEN <<"\\", Head(t)>>
          ELSE <<Head(t)>>) \o escape(Tail(t))

\* """cat > path <<EOF\n{0}\nEOF""".format(payload), in '-c "{0}"'; the
\* words before the first newline are one element
heredoc_command(path, payload) ==
    <<"-c \"", path, "\n">> \o payload \o <<"\n", "E", "O", "F", "\"">>

LicensePath == "cat > /config/bigip.license <<EOF"
EulaPath == "cat > /LICENSE.F5 <<EOF"

\* upload_license_to_device: the command built for license['license']
license_command(t) == heredoc_command(LicensePath, escape(t))

\* upload_eula_to_device: the command built for license['eula']
eula_command(t) == heredoc_command(EulaPath, escape(t))

InitEscape ==
    /\ text \in Texts
    /\ command = <<>>
    /\ pc = "upload"
    /\ want_state = "present"
    /\ license_key = "K1"
    /\ accept_eula = TRUE
    /\ check_mode = FALSE
    /\ want_eula = None
    /\ want_dossier = "D"
    /\ x = 0
    /\ license = NoResult
    /\ nops = 0
    /\ caller = "create"
    /\ changed = FALSE
    /\ error = "-"
    /\ regKey = NoAttr
    /\ licFile = NoFile
    /\ eulaFile = FALSE
    /\ dev0 = [regKey |-> regKey, licFile |-> licFile, eulaFile |-> eulaFile]
    /\ calls = NoCalls
    /\ obs = NoObs
    /\ watch = NoWatch
    /\ earlier = NoRun

\* the command upload_license_to_device hands to exec_cmd for the text
build_license_command ==
    /\ pc = "upload"
    /\ command' = license_command(text)
    /\ pc' = "license_command"
    /\ UNCHANGED <<text, earlier, watch, request, device, dev0, want_eula,
                   want_dossier, x, license, nops, caller, changed, error,
                   calls, obs>>

\* the command upload_eula_to_device hands to exec_cmd for the text
build_eula_command ==
    /\ pc = "upload"
    /\ command' = eula_command(text)
    /\ pc' = "eula_command"
    /\ UNCHANGED <<text, earlier, watch, request, device, dev0, want_eula,
                   want_dossier, x, license, nops, caller, changed, error,
                   calls, obs>>

NextEscape == build_license_command \/ build_eula_command

SpecEscape == InitEscape /\ [][NextEscape]_vars

(***************************************************************************)
(* The module run a second time                                            *)
(***************************************************************************)

\* main() once more with the same parameters, on the appliance as the
\* earlier run left it: a new ModuleManager, nothing kept from the run before
run_again ==
    /\ pc \in {"done", "failed"}
    /\ earlier = NoRun
    /\ earlier' = [pc |-> pc, changed |-> changed]
    /\ want_eula' = None
    /\ want_dossier' = None
    /\ x' = 0
    /\ license' = NoResult
    /\ nops' = 0
    /\ caller' = "-"
    /\ pc' = "start"
    /\ changed' = FALSE
    /\ error' = "-"
    /\ dev0' = [regKey |-> regKey, licFile |-> licFile, eulaFile |-> eulaFile]
    /\ calls' = NoCalls
    /\ obs' = NoObs
    /\ watch' = NoWatch
    /\ UNCHANGED <<escaping, request, device>>

NextAgain == Next \/ run_again

SpecAgain == Init /\ [][NextAgain]_vars

(***************************************************************************)
(* wait_for_mcpd and the verification after it, from the entry of the loop *)
(***************************************************************************)

LoopEntries == {"create", "absent", "absent_check_mode"}

\* the invocation as it enters wait_for_mcpd: create() after an install of
\* the license of the first response, absent() after remove() has returned,
\* and absent() in check mode, where remove() returns at once
LoopEntry(e) ==
    /\ pc = "wait_for_mcpd"
    /\ nops = 0
    /\ want_state = (IF e = "create" THEN "present" ELSE "absent")
    /\ caller = (IF e = "create" THEN "create" ELSE "absent")
    /\ check_mode = (e = "absent_check_mode")
    /\ accept_eula = (e = "create")
    /\ license_key \in WantKeys
    /\ want_eula = None
    /\ want_dossier = (IF e = "create" THEN "D" ELSE None)
    /\ x = 0
    /\ license = (IF e = "create" THEN [license |-> "L1", eula |-> "E1"]
                  ELSE NoResult)
    /\ changed = FALSE
    /\ error = "-"
    /\ dev0 = [regKey |-> IF e = "create" THEN NoAttr ELSE "K1",
               licFile |-> NoFile, eulaFile |-> FALSE]
    /\ licFile = (IF e = "create" THEN license_key ELSE NoFile)
    /\ eulaFile = (e = "create")
    /\ regKey \in (CASE e = "create" -> {NoAttr, license_key}
                     [] e = "absent" -> {NoAttr} \cup ({"K1"} \ {license_key})
                     [] OTHER -> {"K1"})
    /\ calls = (CASE e = "create" ->
                       [NoCalls EXCEPT !.load = 1, !.dossier = 1, !.post = 1,
                                       !.write_license = 1, !.write_eula = 1,
                                       !.reload = 1]
                  [] e = "absent" ->
                       [NoCalls EXCEPT !.load = 2, !.rm = 2, !.reload = 1]
                  [] OTHER -> [NoCalls EXCEPT !.load = 1])
    /\ obs = (IF e = "create"
              THEN [NoObs EXCEPT !.kind = "LICENSE_RETURNED",
                                 !.all_transport = FALSE,
                                 !.pattern = "other",
                                 !.first_eula = "", !.sent_eula = "",
                                 !.fault_text = None]
              ELSE NoObs)
    /\ watch = (CASE e = "create" -> [NoWatch EXCEPT !.dossier = "dossier"]
                  [] e = "absent" -> [NoWatch EXCEPT !.rm = "no_such_file"]
                  [] OTHER -> NoWatch)
    /\ text = <<>>
    /\ command = <<>>
    /\ earlier = NoRun

InitWait == \E e \in LoopEntries : LoopEntry(e)

NextWait == wait_for_mcpd \/ create_exists \/ absent_exists

\* the code goes from one statement to the next: wait_for_mcpd sleeps and
\* asks again as long as it has not returned
SpecWait == InitWait /\ [][NextWait]_vars /\ WF_vars(NextWait)


(***************************************************************************)
(* Properties                                                              *)
(***************************************************************************)

\* no call but the one load of the registration
OnlyLoad == calls = [NoCalls EXCEPT !.load = 1]

\* the appliance is as it was when the invocation began
DeviceUntouched ==
    /\ regKey = dev0.regKey
    /\ licFile = dev0.licFile
    /\ eulaFile = dev0.eulaFile

\* the registration key matched license_key when the invocation began
MatchedAtStart == dev0.regKey # NoAttr /\ dev0.regKey = license_key

\* the request has been sent with this EULA field after the server returned
\* the EULA t
EulaField(t) == IF t = None THEN "" ELSE t

InstallStages == {"upload_license", "upload_eula", "reload_license"}

\* the install step has been entered
Installing ==
    \/ (caller = "create" /\ pc \in InstallStages)
    \/ license # NoResult
    \/ calls.write_license > 0
    \/ calls.write_eula > 0
    \/ (caller = "create" /\ calls.reload > 0)

\* C1: the install step is entered only with the result of a response whose
\* state is LICENSE_RETURNED, that response being the last of the
\* negotiation; after any other outcome (EULA_REQUIRED, EMAIL_REQUIRED,
\* CONTACT_INFO_REQUIRED, fault, unparseable, transport error, exhaustion)
\* no artifact exists and no install step is taken.
C1_ArtifactOnlyFromLicenseReturned ==
    /\ Installing => (obs.kind = "LICENSE_RETURNED" /\ license # NoResult)
    /\ obs.kind # "LICENSE_RETURNED" => (license = NoResult /\ ~Installing)

C1_Witness ==
    /\ pc = "upload_eula"
    /\ calls.post >= 3
    /\ obs.last_eula = "E2"
    /\ license.license = "L1"

\* C2: a negotiation makes at most 10 POST requests; when every request
\* ended in a transport error the negotiation ends only after exactly 10
\* requests, and then with the error 'Failed to generate license from F5
\* activation servers.', never with a license.
C2_AtMostTenRequests ==
    /\ calls.post <= 10
    /\ (obs.all_transport /\ calls.post > 0) =>
          /\ license = NoResult
          /\ pc \in {"generate_license", "failed"}
          /\ pc = "generate_license" => calls.post < 10
          /\ pc = "failed" => (calls.post = 10 /\ error = MsgExhausted)
    /\ (pc = "failed" /\ error = MsgExhausted) => calls.post = 10

C2_Witness ==
    /\ pc = "failed"
    /\ error = MsgExhausted
    /\ obs.all_transport
    /\ calls.post = 10

\* C3: the first request carries an empty EULA field; every request sent
\* after an EULA_REQUIRED response carries the EULA text of the latest
\* EULA_REQUIRED response received before it; and when the server answers
\* EULA_REQUIRED and then LICENSE_RETURNED the negotiation has made exactly
\* 2 requests and has ended with the license.
C3_EulaRoundTrip ==
    /\ calls.post >= 1 => obs.first_eula = ""
    /\ (calls.post >= 1 /\ obs.prev_eula # "-") =>
          obs.sent_eula = EulaField(obs.prev_eula)
    /\ (pc = "generate_license" /\ obs.last_eula # "-") =>
          license_options_eula(want_eula) = EulaField(obs.last_eula)
    /\ obs.pattern = "EL" =>
          /\ calls.post = 2
          /\ pc # "generate_license"
          /\ license # NoResult
          /\ obs.sent_eula = EulaField(obs.last_eula)

C3_Witness ==
    /\ obs.pattern = "EL"
    /\ obs.first_eula = ""
    /\ obs.sent_eula = "E1"
    /\ pc = "upload_license"


\* the negotiation goes on, or has ended by running out of attempts
RetriedOrExhausted ==
    \/ pc = "generate_license"
    \/ (pc = "failed" /\ error = MsgExhausted /\ calls.post = 10)

\* C4, as claimed: a response that is not well-formed XML is transient; after
\* it the loop goes on to the next attempt, and the negotiation is aborted
\* only by running out of attempts.
C4_MalformedIsTransient ==
    obs.kind = "malformed" => RetriedOrExhausted

\* C4, amended: a response that is not well-formed XML ends the negotiation
\* at once with the parser's error 'Provided XML payload is invalid', with
\* no license and no further request, however many attempts remain; a
\* well-formed response on which the parser raises another exception (a
\* fault number that is no integer) and a transport error are transient:
\* after them the loop goes on, and aborts only by running out of attempts.
C4_MalformedIsFatal ==
    /\ obs.kind = "malformed" =>
          /\ pc = "failed"
          /\ error = MsgInvalidXml
          /\ license = NoResult
          /\ ~Installing
    /\ obs.kind \in {"parse_error", "transport_error"} => RetriedOrExhausted
    /\ (pc = "failed" /\ error = MsgInvalidXml) => obs.kind = "malformed"

C4_Witness ==
    /\ obs.kind = "malformed"
    /\ pc = "failed"
    /\ calls.post = 3
    /\ x = 2

\* C5: a parsed response with state EMAIL_REQUIRED, with state
\* CONTACT_INFO_REQUIRED, or taken as a fault (its state is none of
\* EULA_REQUIRED, LICENSE_RETURNED, EMAIL_REQUIRED, CONTACT_INFO_REQUIRED)
\* is the last response of the negotiation: the invocation has failed, with
\* 'Email must be provided', 'Contact info must be provided' or the fault
\* text of that response, and no request follows it.
FaultKinds == {None, "OTHER"}

C6_PresentAlreadyLicensed ==
    (want_state = "present" /\ MatchedAtStart /\ pc # "start") =>
        /\ pc = "done"
        /\ changed = FALSE
        /\ error = "-"
        /\ OnlyLoad
        /\ DeviceUntouched

C6_Witness ==
    /\ want_state = "present"
    /\ pc = "done"
    /\ license_key = "K1"
    /\ dev0.regKey = "K1"
    /\ ~accept_eula
    /\ ~check_mode

\* C7: present() with accept_eula=false on an appliance whose registration
\* key does not match fails with 'You must read and accept the product
\* EULA to license the box.' having made the one load of the registration
\* and nothing else (no dossier, no request, no write, no reload), in check
\* mode as outside it.
C7_EulaNotAccepted ==
    (want_state = "present" /\ ~accept_eula /\ ~MatchedAtStart
     /\ pc # "start") =>
        /\ pc = "failed"
        /\ error = MsgEula
        /\ changed = FALSE
        /\ OnlyLoad
        /\ DeviceUntouched

C7_Witness ==
    /\ want_state = "present"
    /\ pc = "failed"
    /\ error = MsgEula
    /\ check_mode
    /\ dev0.regKey = "K2"
    /\ license_key = "K1"

\* C8: outside check mode present() returns changed=true only after the
\* reload and after the polling loop has ended with 4 positive checks in a
\* row, and only with the registration key equal to license_key; when the
\* key does not match at that point it has failed with 'Failed to license
\* the device.'.
C8_PresentVerified ==
    /\ (want_state = "present" /\ ~check_mode /\ pc = "done" /\ changed) =>
          /\ regKey = license_key
          /\ calls.reload = 1
          /\ nops = 4
          /\ calls.poll >= 4
    /\ (want_state = "present" /\ pc \in {"done", "failed"}
        /\ calls.load = 2) =>
          /\ nops = 4
          /\ regKey = license_key => (pc = "done" /\ changed)
          /\ regKey # license_key => (pc = "failed" /\ error = MsgNotLicensed)
    /\ (pc = "failed" /\ error = MsgNotLicensed) =>
          (want_state = "present" /\ calls.load = 2)

C8_Witness ==
    /\ want_state = "present"
    /\ pc = "done"
    /\ changed
    /\ dev0.regKey = "K2"
    /\ regKey = "K1"
    /\ calls.poll = 6

\* C9: absent() on an appliance without a registration returns
\* changed=false having made the one load of the registration and nothing
\* else: no write, no removal, no reload, no polling.
C9_AbsentNothingToDo ==
    (want_state = "absent" /\ dev0.regKey \in {None, NoAttr}
     /\ pc # "start") =>
        /\ pc = "done"
        /\ changed = FALSE
        /\ error = "-"
        /\ OnlyLoad
        /\ DeviceUntouched

C9_Witness ==
    /\ want_state = "absent"
    /\ pc = "done"
    /\ dev0.regKey = None
    /\ eulaFile
    /\ ~check_mode

\* C10, as claimed: outside check mode absent() never returns changed=true
\* while the appliance still holds a registration key, whatever license_key
\* is.
C10_AbsentVerified ==
    (want_state = "absent" /\ ~check_mode /\ pc = "done" /\ changed) =>
        regKey \in {None, NoAttr}


\* the polling loop has been left
Polled == calls.poll > 0 /\ pc # "wait_for_mcpd"

\* C11: in wait_for_mcpd the counter is the number of positive readiness
\* results in a row that end the checks made so far, a negative result and
\* a query error both setting it to zero; the loop is left at the first
\* check that completes 4 positive results in a row, no earlier and no
\* later; on the results fail, ok, ok, fail, ok, ok, ok, ok it is left after
\* exactly 8 checks.
C11_ConsecutiveCounter ==
    /\ nops = watch.run
    /\ watch.sig \in {"no_result", "error"} => nops = 0
    /\ pc = "wait_for_mcpd" => nops < 4
    /\ Polled => (nops = 4 /\ watch.sig = "running" /\ calls.poll >= 4)
    /\ (watch.on_seq /\ calls.poll > 0 /\ calls.poll < 8) =>
          pc = "wait_for_mcpd"
    /\ (watch.on_seq /\ calls.poll = 8) => Polled

C11_Witness ==
    /\ watch.on_seq
    /\ calls.poll = 8
    /\ nops = 4
    /\ pc = "absent_exists"


\* the appliance is as the operation was asked to make it
Converged ==
    IF want_state = "present"
    THEN regKey = license_key /\ licFile = license_key /\ eulaFile
    ELSE regKey \in {None, NoAttr} /\ licFile = NoFile /\ ~eulaFile

\* C12, as claimed: when present() or absent() has ended in an error the
\* appliance is as the operation was asked to make it, or as it was before
\* the invocation (registration, license file and EULA file).
C12_FailedMeansUntouchedOrConverged ==
    pc = "failed" => (DeviceUntouched \/ Converged)


\* C13, as claimed (outside check mode): when present() or absent() has
\* returned changed=true and the same operation is run again on the
\* appliance as it stands, the second run returns changed=false having made
\* the one load of the registration and nothing else: no request, no write,
\* no removal, no reload.
C13_SecondRunUnchanged ==
    (earlier.pc = "done" /\ earlier.changed /\ ~check_mode /\ pc # "start") =>
        (pc = "done" /\ ~changed /\ OnlyLoad)

\* the same, of present() alone
SecondPresentUnchanged == want_state = "present" => C13_SecondRunUnchanged


\* C14: in absent() a 'No such file or directory' error of the removal of
\* the license file or of the EULA file counts as a removal done: after it
\* the next step is taken (the EULA removal, then the reload); any other
\* error of a removal ends the invocation in an error, with no later
\* removal, no reload and no polling.
RmDone == watch.rm \in {"removed", "no_such_file"}

C14_RemovalErrors ==
    /\ (RmDone /\ calls.rm = 1) =>
          (pc = "remove_eula" /\ calls.reload = 0)
    /\ (RmDone /\ calls.rm = 2) =>
          (pc = "reload_license" \/ calls.reload = 1)
    /\ watch.rm \in {"util_error", "raises"} =>
          /\ pc = "failed"
          /\ error \in {MsgUtilError, MsgGateway}
          /\ calls.reload = 0
          /\ calls.poll = 0
          /\ regKey = dev0.regKey
          /\ calls.rm = 1 => eulaFile = dev0.eulaFile
    /\ calls.rm <= 2

C14_Witness ==
    /\ watch.rm = "no_such_file"
    /\ calls.rm = 2
    /\ dev0.licFile = NoFile
    /\ ~dev0.eulaFile
    /\ calls.reload = 1
    /\ pc = "wait_for_mcpd"


\* the escaped text inside a built command, and the lines bash reads after
\* the first line of the command, the closing quote taken off
Payload(cmd) == SubSeq(cmd, 4, Len(cmd) - 5)
Body(cmd) == SubSeq(cmd, 4, Len(cmd) - 1)

\* the number of lines of the body that end before a line 'EOF' is read
RECURSIVE LinesBeforeTerminator(_, _)
LinesBeforeTerminator(t, line) ==
    IF t = <<>> THEN 0
    ELSE IF Head(t) = "\n"
         THEN IF line = <<"E", "O", "F">> THEN 0
              ELSE 1 + LinesBeforeTerminator(Tail(t), <<>>)
         ELSE LinesBeforeTerminator(Tail(t), Append(line, Head(t)))

\* the number of lines of a text
RECURSIVE Newlines(_)
Newlines(t) ==
    IF t = <<>> THEN 0
    ELSE (IF Head(t) = "\n" THEN 1 ELSE 0) + Newlines(Tail(t))

\* every character of escape_patterns has a backslash before it
AllEscaped(t) ==
    \A i \in 1..Len(t) :
        t[i] \in escape_patterns => (i > 1 /\ t[i - 1] = "\\")

\* the terminator bash takes is the last line of the command: every line of
\* the text is written to the file
TerminatorIsLast(cmd, t) ==
    LinesBeforeTerminator(Body(cmd), <<>>) = Newlines(t) + 1

\* C15, as claimed: for every text, the command an upload hands to exec_cmd
\* has a backslash before each dollar sign, double quote and single quote of
\* the text, and no line of the text is taken as the heredoc terminator
\* 'EOF' before the terminator the command ends with.
C15_EscapedAndNoCollision ==
    pc \in {"license_command", "eula_command"} =>
        /\ AllEscaped(Payload(command))
        /\ TerminatorIsLast(command, text)

\* the first half of C15 alone
EscapedOnly ==
    pc \in {"license_command", "eula_command"} =>
        AllEscaped(Payload(command))


\* C16: the dossier is read from the appliance, once, before any request to
\* the activation server, and the request carries it; when the answer has
\* no dossier or an empty one the run fails with 'Dossier not generated.',
\* having sent no request and written and reloaded nothing.
C16_DossierFirst ==
    /\ calls.post > 0 =>
          (calls.dossier = 1 /\ watch.dossier = "dossier" /\ want_dossier = "D")
    /\ (caller = "create" /\ pc \in InstallStages) => want_dossier = "D"
    /\ watch.dossier \in {"no_result", "empty"} =>
          /\ pc = "failed"
          /\ error = MsgDossier
          /\ calls.post = 0
          /\ calls.write_license = 0
          /\ calls.write_eula = 0
          /\ calls.reload = 0
          /\ DeviceUntouched
    /\ error = MsgDossier => watch.dossier \in {"no_result", "empty"}

C16_Witness ==
    /\ watch.dossier = "empty"
    /\ error = MsgDossier
    /\ calls.dossier = 1
    /\ calls.load = 1


\* the device commands of the install step issued so far by ensurePresent
InstallCommands ==
    IF caller = "create"
    THEN calls.write_license + calls.write_eula + calls.reload
    ELSE 0

\* the negotiation has ended without a result
NegotiationFailed ==
    /\ pc = "failed"
    /\ calls.post > 0
    /\ obs.kind # "LICENSE_RETURNED"

\* C17: ensurePresent issues a license write, an EULA write or a reload only
\* once a response LICENSE_RETURNED has ended the negotiation, and a command
\* is issued only from the install step; a negotiation that fails (email or
\* contact information required, fault, malformed response, exhaustion)
\* ends the run with no write and no reload issued and the appliance as it
\* was.
C17_NoMutationBeforeLicense ==
    /\ InstallCommands > 0 =>
          (obs.kind = "LICENSE_RETURNED" /\ calls.post > 0 /\ calls.dossier = 1)
    /\ pc = "generate_license" => InstallCommands = 0
    /\ NegotiationFailed =>
          /\ InstallCommands = 0
          /\ DeviceUntouched
          /\ ~changed
          /\ error \in {MsgEmail, MsgContact, MsgInvalidXml, MsgExhausted,
                        obs.fault_text}

C17_Witness ==
    /\ NegotiationFailed
    /\ error = MsgExhausted
    /\ obs.pattern = "other"
    /\ ~obs.all_transport


\* C18, as claimed: the install step issues the license write, then the EULA
\* write, then the reload; the reload is issued only after both writes have
\* succeeded, and once one of the three commands has failed the run fails
\* at once, with no readiness query and no verification made.
C18_InstallFailsFatally ==
    /\ calls.write_eula > 0 => calls.write_license = 1
    /\ (caller = "create" /\ calls.reload > 0) =>
          (calls.write_license = 1 /\ calls.write_eula = 1)
    /\ (caller = "create" /\ watch.cmd_failed) =>
          /\ pc = "failed"
          /\ calls.poll = 0
          /\ calls.load = 1

\* the order of the three commands alone
InstallOrder ==
    /\ calls.write_eula > 0 => calls.write_license = 1
    /\ (caller = "create" /\ calls.reload > 0) =>
          (calls.write_license = 1 /\ calls.write_eula = 1)
    /\ (caller = "create" /\ calls.poll > 0) => calls.reload = 1


\* C19, as claimed: ensureAbsent on an appliance that has a registration
\* removes the license file, then the EULA file, then issues the reload,
\* then runs the readiness loop, then loads the registration to verify; from
\* the reload until the loop has ended the registration is not loaded, so
\* the only load made by then is the one that began the operation.
C19_NoQueryBeforePolled ==
    (want_state = "absent" /\ ~check_mode) =>
        /\ calls.reload > 0 => calls.rm = 2
        /\ calls.poll > 0 => calls.reload = 1
        /\ (calls.reload > 0 /\ ~Polled) => calls.load = 1

\* the order of the commands of ensureAbsent as the code has it: the two
\* removals, the reload, a load of the registration, the readiness loop, a
\* second load of the registration
AbsentOrder ==
    (want_state = "absent" /\ ~check_mode) =>
        /\ calls.reload > 0 => calls.rm = 2
        /\ calls.poll > 0 => (calls.reload = 1 /\ calls.load >= 2)
        /\ pc = "done" /\ changed => (calls.load = 3 /\ calls.poll >= 4)


\* the readiness loop is left in this step
LoopLeft == pc = "wait_for_mcpd" /\ pc' # "wait_for_mcpd"

\* C20: the readiness loop is left only by a check that completes 4
\* positive results in a row, and then for the verification, never with an
\* error; as long as it has not been left the next check can be made,
\* however many were made; and when from some point on every result is
\* positive the loop is left and the invocation ends.
C20_LoopLeftIffFourPositives ==
    /\ [][LoopLeft => (watch'.run = 4 /\ watch'.sig = "running"
                       /\ pc' \in {"create_exists", "absent_exists"})]_vars
    /\ [](pc = "wait_for_mcpd" => (watch.run < 4 /\ ENABLED wait_for_mcpd))
    /\ (<>[](watch.sig = "running") => <>(pc \in {"done", "failed"}))

C20_Witness ==
    /\ pc = "wait_for_mcpd"
    /\ calls.poll = MaxPolls
    /\ watch.run = 3
    /\ ~watch.on_seq


\* the commands that change the appliance, issued so far
MutatingCommands ==
    calls.write_license + calls.write_eula + calls.rm + calls.reload

\* C21: in check mode present() with accept_eula=true on an appliance whose
\* registration key does not match returns changed=true having made the one
\* load of the registration and nothing else (no dossier, no request, no
\* write, no reload, no readiness query); and no run in check mode, of
\* present() or of absent(), issues a heredoc write, a removal of a file or
\* a reload, or leaves the appliance other than it was.
C21_CheckModeNoMutation ==
    /\ (want_state = "present" /\ check_mode /\ accept_eula
        /\ ~exists(dev0.regKey, license_key) /\ pc # "start") =>
          /\ pc = "done"
          /\ changed
          /\ OnlyLoad
          /\ calls.poll = 0
    /\ check_mode =>
          /\ MutatingCommands = 0
          /\ calls.dossier = 0
          /\ calls.post = 0
          /\ DeviceUntouched

C21_Witness ==
    /\ want_state = "present"
    /\ check_mode
    /\ accept_eula
    /\ dev0.regKey = "K2"
    /\ license_key = "K1"
    /\ pc = "done"
    /\ changed
    /\ calls.load = 1

\* C22, as claimed: in check mode absent() on an appliance that has a
\* registration returns changed=true, with no error, whatever license_key
\* is (the registered key included), and makes no readiness query.
C22_CheckModeAbsentReturns ==
    (want_state = "absent" /\ check_mode
     /\ any_license_exists(dev0.regKey) /\ pc # "start") =>
        /\ pc = "done"
        /\ changed
        /\ error = "-"
        /\ calls.poll = 0

\* absent() in check mode as the code has it: nothing is removed or
\* reloaded, the readiness loop runs, and the run then fails exactly when
\* license_key is the registered key
CheckModeAbsent ==
    (want_state = "absent" /\ check_mode
     /\ any_license_exists(dev0.regKey) /\ pc \in {"done", "failed"}) =>
        /\ MutatingCommands = 0
        /\ calls.poll >= 4
        /\ calls.load = 2
        /\ pc = "failed" <=> dev0.regKey = license_key
        /\ pc = "failed" => error = MsgNotRemoved
        /\ pc = "done" => changed

====
